---- MODULE Spec2Model ----
(***************************************************************************)
(* Model of the data science health check script (hello.py) and of its     *)
(* prompt builder (app/prompts.py).                                        *)
(*                                                                         *)
(* A Python str is modelled as a sequence of text fragments; concatenating *)
(* the fragments gives the text.  An optional value (None or a value) is a *)
(* sequence of length at most one: <<>> is None, <<v>> is the value v.     *)
(***************************************************************************)
EXTENDS Integers, Sequences, FiniteSets, TLC

\* ------------------------------------------------------------ bounds
MaxCsvLines == 2     \* lines of text in the CSV file
MaxCsvFields == 2    \* fields on one line of the CSV file
MaxSeed == 2         \* distinct states of the random generator
MaxLen == 2          \* fragments in an argument of get_user_prompt

\* ------------------------------------------------------------ values
None == <<>>
Some(v) == <<v>>

\* Python truthiness of an optional str: None and "" are falsy.
Truthy(opt) == opt # None /\ opt[1] # <<>>

\* sep.join(parts) of Python
RECURSIVE Join(_, _)
Join(sep, parts) ==
    IF parts = <<>> THEN <<>>
    ELSE IF Len(parts) = 1 THEN parts[1]
    ELSE parts[1] \o sep \o Join(sep, Tail(parts))

\* sub in s of Python
Contains(s, sub) ==
    \E i \in 0..(Len(s) - Len(sub)) : SubSeq(s, i + 1, i + Len(sub)) = sub

\* ------------------------------------------------------------ app/prompts.py
\* A newline is a fragment of its own, so that text found across the seam of
\* two joined parts is found in the model as well.
NL == "\n"

SYSTEM_MESSAGE == <<"You are a helpful data analyst assistant.">>

INTRO == <<"Here are two sample datasets in Markdown format.">>
DATASET_1 == <<NL, "Dataset 1 (Generated):">>
DATASET_2 == <<NL, "Dataset 2 (From CSV):">>

\* The two questions share their opening words.
PLEASE == "Please provide a brief description of "
THIS_DATASET ==
    "this dataset, mentioning the features and potential target variable. What kind of simple analysis could be performed on this data?"
EACH_DATASET ==
    "each dataset, mentioning the features and potential target variables. What kind of simple analysis could be performed on each, or potentially by combining them?"
COMPARATIVE_QUESTION == <<NL, PLEASE, EACH_DATASET>>
SINGLE_QUESTION == <<NL, PLEASE, THIS_DATASET>>

\* Variant: the second table is never used.
get_user_prompt_ignores_csv(generated_markdown, csv_markdown) ==
    Join(<<NL, NL>>, <<INTRO, DATASET_1, generated_markdown, SINGLE_QUESTION>>)

\* Variant: the single-dataset question is appended in both branches.
get_user_prompt_keeps_single(generated_markdown, csv_markdown) ==
    LET prompt_parts == <<INTRO, DATASET_1, generated_markdown>>
    IN  Join(<<NL, NL>>,
             IF Truthy(csv_markdown)
             THEN prompt_parts \o <<DATASET_2, csv_markdown[1], COMPARATIVE_QUESTION, SINGLE_QUESTION>>
             ELSE prompt_parts \o <<SINGLE_QUESTION>>)

get_user_prompt(generated_markdown, csv_markdown) ==
    LET prompt_parts == <<INTRO, DATASET_1, generated_markdown>>
    IN  Join(<<NL, NL>>,
             IF Truthy(csv_markdown)
             THEN prompt_parts \o <<DATASET_2, csv_markdown[1], COMPARATIVE_QUESTION>>
             ELSE prompt_parts \o <<SINGLE_QUESTION>>)

\* ------------------------------------------------------------ tables
\* A DataFrame: its column names and its rows of cells.
NumRows == 5
NumCols == 3
columns == <<"Feature_A", "Feature_B", "Target">>

\* np.random.rand(5, 3): floats in [0, 1) fixed by the generator's state.
RandValues == <<"0.12", "0.57", "0.93">>
rand(seed) ==
    [i \in 1..NumRows |->
        [j \in 1..NumCols |->
            RandValues[((seed + NumCols * (i - 1) + j) % Len(RandValues)) + 1]]]

DataFrame(data, cols) == [columns |-> cols, rows |-> data]

\* One line of a pipe table: | c1 | c2 |
RECURSIVE PipeLine(_)
PipeLine(cells) ==
    IF cells = <<>> THEN <<"|">>
    ELSE <<"|", Head(cells)>> \o PipeLine(Tail(cells))

RECURSIVE Lines(_)
Lines(rows) ==
    IF rows = <<>> THEN <<>>
    ELSE <<NL>> \o PipeLine(Head(rows)) \o Lines(Tail(rows))

\* DataFrame.to_markdown(index=False): header row, separator row, one row per
\* record, no index column.
to_markdown(df) ==
    PipeLine(df.columns)
        \o <<NL>> \o PipeLine([j \in 1..Len(df.columns) |-> "---"])
        \o Lines(df.rows)

RECURSIVE SpaceLine(_)
SpaceLine(cells) ==
    IF cells = <<>> THEN <<>>
    ELSE IF Len(cells) = 1 THEN cells
    ELSE <<Head(cells), " ">> \o SpaceLine(Tail(cells))

RECURSIVE SpaceLines(_)
SpaceLines(rows) ==
    IF rows = <<>> THEN <<>>
    ELSE <<NL>> \o SpaceLine(Head(rows)) \o SpaceLines(Tail(rows))

\* DataFrame.to_string(): the header and the rows, space separated.
to_string(df) == SpaceLine(df.columns) \o SpaceLines(df.rows)

\* ------------------------------------------------------------ the CSV file
CSV_FILE_PATH == <<"data/sample_data.csv">>

HeaderCells == <<"id", "value", "label", "note">>
DataCells == <<"1", "2.5", "x", "y">>

\* The lines a file may hold: a header-like or a data-like line of 1..MaxCsvFields
\* fields.
CsvLines ==
    {SubSeq(HeaderCells, 1, n) : n \in 1..MaxCsvFields}
        \cup {SubSeq(DataCells, 1, n) : n \in 1..MaxCsvFields}

RECURSIVE SeqsUpTo(_, _)
SeqsUpTo(S, n) ==
    IF n = 0 THEN {<<>>}
    ELSE LET shorter == SeqsUpTo(S, n - 1)
         IN  shorter \cup {Append(s, x) : s \in {t \in shorter : Len(t) = n - 1}, x \in S}

\* What may be at CSV_FILE_PATH: nothing, bytes that are not UTF-8, or text.
CsvFiles ==
    {[kind |-> k, lines |-> <<>>] : k \in {"missing", "undecodable"}}
        \cup {[kind |-> "text", lines |-> ls] : ls \in SeqsUpTo(CsvLines, MaxCsvLines)}

\* The exception pd.read_csv raises on the file, "ok" when it parses.
read_csv_outcome(file) ==
    IF file.kind = "missing" THEN "FileNotFoundError"
    ELSE IF file.kind = "undecodable" THEN "UnicodeDecodeError"
    ELSE IF file.lines = <<>> THEN "EmptyDataError"
    ELSE IF \E i \in 2..Len(file.lines) : Len(file.lines[i]) > Len(file.lines[1])
         THEN "ParserError"
    ELSE "ok"

\* pd.read_csv on text that parses: the first line names the columns, a short
\* row is filled with NaN.
read_csv(file) ==
    LET header == file.lines[1]
        fill(row) == [j \in 1..Len(header) |-> IF j <= Len(row) THEN row[j] ELSE "nan"]
    IN  DataFrame([i \in 1..(Len(file.lines) - 1) |-> fill(file.lines[i + 1])], header)

\* ------------------------------------------------------------ state
VARIABLES
    OPENAI_API_KEY,            \* environment: the credential, None when unset
    client_fault,              \* environment: what else is wrong for OpenAI(), "none" if nothing
    app_importable,            \* environment: whether app/prompts.py can be imported
    csv_file,                  \* environment: what is at CSV_FILE_PATH
    seed,                      \* environment: the random generator's state
    pc,                        \* the statement the process is at
    prompts,                   \* module global: the prompts module, or None
    CLIENT,                    \* module global: the client, or None
    generated_df,
    csv_df,
    csv_markdown_table,
    generated_markdown_table,
    prompt,
    requests,                  \* the chat-completion requests sent, in order
    response,
    output,                    \* what was written, in order: <<stream, text>>
    raised                     \* the exceptions raised, in order: <<name, fate>>

env == <<OPENAI_API_KEY, client_fault, app_importable, csv_file, seed>>
locals == <<generated_df, csv_df, csv_markdown_table, generated_markdown_table, prompt>>
vars == <<env, pc, prompts, CLIENT, locals, requests, response, output, raised>>

\* print(...) and click.echo(...) write to standard output, click.echo(..., err=True)
\* to standard error.
print(text) == <<"stdout", text>>
echo(text) == <<"stdout", text>>
echo_err(text) == <<"stderr", text>>
RULE == <<"------------------------------">>

\* An exception no handler takes ends the process: the interpreter writes the
\* traceback to standard error.
Unhandled(printed, exc) ==
    /\ pc' = "crashed"
    /\ raised' = Append(raised, <<exc, "unhandled">>)
    /\ output' = output \o printed
                    \o << <<"stderr", <<"Traceback (most recent call last): ", exc>>>> >>

Caught(exc) == raised' = Append(raised, <<exc, "caught">>)

\* openai.OpenAI() raises OpenAIError, a direct subclass of Exception, when it
\* is given no api_key and OPENAI_API_KEY is unset; the credential is looked at
\* before anything else.
OpenAI_outcome ==
    IF OPENAI_API_KEY = None THEN "OpenAIError"
    ELSE IF client_fault # "none" THEN client_fault
    ELSE "ok"

Init ==
    /\ OPENAI_API_KEY \in {None, Some("sk-key")}
    /\ client_fault \in {"none", "ValueError", "TypeError"}
    /\ app_importable \in BOOLEAN
    /\ csv_file \in CsvFiles
    /\ seed \in 0..(MaxSeed - 1)
    /\ pc = "import_prompts"
    /\ prompts = None
    /\ CLIENT = None
    /\ generated_df = None
    /\ csv_df = None
    /\ csv_markdown_table = None
    /\ generated_markdown_table = None
    /\ prompt = None
    /\ requests = <<>>
    /\ response = None
    /\ output = <<>>
    /\ raised = <<>>

\* ------------------------------------------------------------ module start-up
ImportPromptsOk ==
    /\ pc = "import_prompts"
    /\ app_importable
    /\ prompts' = Some("app.prompts")
    /\ pc' = "init_client"
    /\ UNCHANGED <<env, CLIENT, locals, requests, response, output, raised>>

ImportPromptsFails ==
    /\ pc = "import_prompts"
    /\ ~app_importable
    /\ Caught("ImportError")
    /\ output' = output \o
         << print(<<"Error: Could not import prompts from 'app' directory.">>),
            print(<<"Ensure 'app/prompts.py' exists and the 'app' directory is accessible.">>) >>
    /\ prompts' = None
    /\ pc' = "init_client"
    /\ UNCHANGED <<env, CLIENT, locals, requests, response>>

\* except (ValueError, TypeError) of the client's construction
ClientHandled == {"ValueError", "TypeError"}

InitClientOk ==
    /\ pc = "init_client"
    /\ OpenAI_outcome = "ok"
    /\ CLIENT' = Some("OpenAI")
    /\ pc' = "health_check"
    /\ UNCHANGED <<env, prompts, locals, requests, response, output, raised>>

InitClientCaught ==
    /\ pc = "init_client"
    /\ OpenAI_outcome \in ClientHandled
    /\ Caught(OpenAI_outcome)
    /\ output' = output \o
         << print(<<"Error initializing OpenAI client: ", OpenAI_outcome>>),
            print(<<"Please ensure the OPENAI_API_KEY environment variable is set.">>) >>
    /\ CLIENT' = None
    /\ pc' = "health_check"
    /\ UNCHANGED <<env, prompts, locals, requests, response>>

InitClientUnhandled ==
    /\ pc = "init_client"
    /\ OpenAI_outcome \notin {"ok"} \cup ClientHandled
    /\ Unhandled(<<>>, OpenAI_outcome)
    /\ UNCHANGED <<env, prompts, CLIENT, locals, requests, response>>

\* ------------------------------------------------------------ health_check
ClientNotInitialized ==
    /\ pc = "health_check"
    /\ CLIENT = None
    /\ output' = Append(output, echo_err(<<"OpenAI client not initialized. Cannot proceed.">>))
    /\ pc' = "exit"
    /\ UNCHANGED <<env, prompts, CLIENT, locals, requests, response, raised>>

PromptsNotLoaded ==
    /\ pc = "health_check"
    /\ CLIENT # None
    /\ prompts = None
    /\ output' = Append(output, echo_err(<<"Prompts module not loaded. Cannot proceed.">>))
    /\ pc' = "exit"
    /\ UNCHANGED <<env, prompts, CLIENT, locals, requests, response, raised>>

GenerateSample ==
    /\ pc = "health_check"
    /\ CLIENT # None
    /\ prompts # None
    /\ generated_df' = Some(DataFrame(rand(seed), columns))
    /\ output' = output \o
         << echo(<<"Performing data science health check...">>),
            echo(<<"Generating sample DataFrame...">>),
            echo(<<"Sample DataFrame created:">>),
            echo(to_string(generated_df'[1])),
            echo(RULE) >>
    /\ pc' = "read_csv"
    /\ UNCHANGED <<env, prompts, CLIENT, csv_df, csv_markdown_table,
                   generated_markdown_table, prompt, requests, response, raised>>

\* lines 72-74, run before pd.read_csv is called
AttemptRead == << echo(<<"Attempting to read CSV file: ">> \o CSV_FILE_PATH \o <<"...">>) >>

\* except FileNotFoundError
CsvNotFoundHandled == {"FileNotFoundError"}

\* Variant: the handler leaves out ParserError.
CsvParseHandled_no_ParserError == {"EmptyDataError"}

\* except (EmptyDataError, ParserError)
CsvParseHandled == {"EmptyDataError", "ParserError"}

ReadCsvOk ==
    /\ pc = "read_csv"
    /\ read_csv_outcome(csv_file) = "ok"
    /\ csv_df' = Some(read_csv(csv_file))
    /\ csv_markdown_table' = None
    /\ output' = output \o AttemptRead \o
         << echo(<<"CSV file read successfully:">>),
            echo(to_string(csv_df'[1])),
            echo(RULE) >>
    /\ pc' = "convert_csv"
    /\ UNCHANGED <<env, prompts, CLIENT, generated_df, generated_markdown_table,
                   prompt, requests, response, raised>>

ConvertCsv ==
    /\ pc = "convert_csv"
    /\ csv_markdown_table' = Some(to_markdown(csv_df[1]))
    /\ output' = output \o
         << echo(<<"Converting CSV DataFrame to Markdown...">>),
            echo(<<"CSV Markdown Table:">>),
            echo(csv_markdown_table'[1]),
            echo(RULE) >>
    /\ pc' = "convert_generated"
    /\ UNCHANGED <<env, prompts, CLIENT, generated_df, csv_df, generated_markdown_table,
                   prompt, requests, response, raised>>

ReadCsvNotFound ==
    /\ pc = "read_csv"
    /\ read_csv_outcome(csv_file) \in CsvNotFoundHandled
    /\ Caught(read_csv_outcome(csv_file))
    /\ csv_df' = None
    /\ csv_markdown_table' = None
    /\ output' = output \o AttemptRead \o
         << echo_err(<<"Warning: CSV file not found at ">> \o CSV_FILE_PATH \o <<".">>),
            echo(RULE) >>
    /\ pc' = "convert_generated"
    /\ UNCHANGED <<env, prompts, CLIENT, generated_df, generated_markdown_table,
                   prompt, requests, response>>

ReadCsvParseError ==
    /\ pc = "read_csv"
    /\ read_csv_outcome(csv_file) \in CsvParseHandled
    /\ Caught(read_csv_outcome(csv_file))
    /\ csv_df' = None
    /\ csv_markdown_table' = None
    /\ output' = output \o AttemptRead \o
         << echo_err(<<"Error reading CSV file: ", read_csv_outcome(csv_file)>>),
            echo(RULE) >>
    /\ pc' = "convert_generated"
    /\ UNCHANGED <<env, prompts, CLIENT, generated_df, generated_markdown_table,
                   prompt, requests, response>>

ReadCsvUnhandled ==
    /\ pc = "read_csv"
    /\ read_csv_outcome(csv_file) \notin {"ok"} \cup CsvNotFoundHandled \cup CsvParseHandled
    /\ Unhandled(AttemptRead, read_csv_outcome(csv_file))
    /\ csv_df' = None
    /\ csv_markdown_table' = None
    /\ UNCHANGED <<env, prompts, CLIENT, generated_df, generated_markdown_table,
                   prompt, requests, response>>

ConvertGenerated ==
    /\ pc = "convert_generated"
    /\ generated_markdown_table' = Some(to_markdown(generated_df[1]))
    /\ output' = output \o
         << echo(<<"Converting generated DataFrame to Markdown...">>),
            echo(<<"Generated Markdown Table:">>),
            echo(generated_markdown_table'[1]),
            echo(RULE) >>
    /\ pc' = "build_prompt"
    /\ UNCHANGED <<env, prompts, CLIENT, generated_df, csv_df, csv_markdown_table,
                   prompt, requests, response, raised>>

BuildPrompt ==
    /\ pc = "build_prompt"
    /\ prompt' = Some(get_user_prompt(generated_markdown_table[1], csv_markdown_table))
    /\ output' = Append(output, echo(<<"Sending data to OpenAI API for analysis...">>))
    /\ pc' = "create"
    /\ UNCHANGED <<env, prompts, CLIENT, generated_df, csv_df, csv_markdown_table,
                   generated_markdown_table, requests, response, raised>>

\* ------------------------------------------------------------ the remote call
Message(role, content) == [role |-> role, content |-> content]

\* Variant: the two messages in the other order.
messages_user_first ==
    << Message("user", prompt[1]), Message("system", SYSTEM_MESSAGE) >>

\* the messages of lines 111-114
messages ==
    << Message("system", SYSTEM_MESSAGE), Message("user", prompt[1]) >>

ChatRequest == [model |-> "gpt-3.5-turbo", messages |-> messages]

\* What the service may answer: a completion with a first choice, or one whose
\* list of choices is empty.
Reply == <<"Both columns are numeric; a regression on Target is feasible.">>
Responses == {[choices |-> <<>>], [choices |-> <<Reply>>]}

\* What CLIENT.chat.completions.create may raise: the three classes the handler
\* names, and the client's own error for a failed connection (an OpenAIError).
CreateErrors == {"ValueError", "TypeError", "KeyError", "APIConnectionError"}

\* except (ValueError, TypeError, KeyError)
\* Variant: the handler leaves out KeyError.
ApiHandled_no_KeyError == {"ValueError", "TypeError"}
ApiHandled == {"ValueError", "TypeError", "KeyError"}

CreateReturns ==
    /\ pc = "create"
    /\ requests' = Append(requests, ChatRequest)
    /\ \E r \in Responses : response' = Some(r)
    /\ pc' = "print_response"
    /\ UNCHANGED <<env, prompts, CLIENT, locals, output, raised>>

CreateRaisesCaught ==
    /\ pc = "create"
    /\ requests' = Append(requests, ChatRequest)
    /\ \E openai_error \in CreateErrors \cap ApiHandled :
         /\ Caught(openai_error)
         /\ output' = Append(output, echo_err(<<"Error calling OpenAI API: ", openai_error>>))
    /\ pc' = "finish"
    /\ UNCHANGED <<env, prompts, CLIENT, locals, response>>

CreateRaisesUnhandled ==
    /\ pc = "create"
    /\ requests' = Append(requests, ChatRequest)
    /\ \E openai_error \in CreateErrors \ ApiHandled : Unhandled(<<>>, openai_error)
    /\ UNCHANGED <<env, prompts, CLIENT, locals, response>>

PrintResponse ==
    /\ pc = "print_response"
    /\ response[1].choices # <<>>
    /\ output' = output \o
         << echo(<<"OpenAI API Response:">>),
            echo(response[1].choices[1]) >>
    /\ pc' = "finish"
    /\ UNCHANGED <<env, prompts, CLIENT, locals, requests, response, raised>>

\* response.choices[0] on an empty list raises IndexError
NoFirstChoice ==
    /\ pc = "print_response"
    /\ response[1].choices = <<>>
    /\ IF "IndexError" \in ApiHandled
       THEN /\ Caught("IndexError")
            /\ output' = Append(output, echo_err(<<"Error calling OpenAI API: ", "IndexError">>))
            /\ pc' = "finish"
       ELSE Unhandled(<<>>, "IndexError")
    /\ UNCHANGED <<env, prompts, CLIENT, locals, requests, response>>

Finish ==
    /\ pc = "finish"
    /\ output' = output \o << echo(RULE), echo(<<"Health check complete.">>) >>
    /\ pc' = "exit"
    /\ UNCHANGED <<env, prompts, CLIENT, locals, requests, response, raised>>

Next ==
    \/ ImportPromptsOk
    \/ ImportPromptsFails
    \/ InitClientOk
    \/ InitClientCaught
    \/ InitClientUnhandled
    \/ ClientNotInitialized
    \/ PromptsNotLoaded
    \/ GenerateSample
    \/ ReadCsvOk
    \/ ConvertCsv
    \/ ReadCsvNotFound
    \/ ReadCsvParseError
    \/ ReadCsvUnhandled
    \/ ConvertGenerated
    \/ BuildPrompt
    \/ CreateReturns
    \/ CreateRaisesCaught
    \/ CreateRaisesUnhandled
    \/ PrintResponse
    \/ NoFirstChoice
    \/ Finish

Spec == Init /\ [][Next]_vars

\* The interpreter runs the script to its end: a statement that can run does.
FairSpec == Spec /\ WF_vars(Next)

\* ------------------------------------------------------------ get_user_prompt alone
\* The texts get_user_prompt is applied to: up to MaxLen fragments, among them
\* the fragments of the single-dataset question, which a table cell may hold.
PromptFragments == {"| A |", NL, PLEASE, THIS_DATASET}
PromptTexts == SeqsUpTo(PromptFragments, MaxLen)

PromptInit ==
    /\ OPENAI_API_KEY = Some("sk-key")
    /\ client_fault = "none"
    /\ app_importable = TRUE
    /\ csv_file = [kind |-> "missing", lines |-> <<>>]
    /\ seed = 0
    /\ pc = "get_user_prompt"
    /\ prompts = Some("app.prompts")
    /\ CLIENT = None
    /\ generated_df = None
    /\ csv_df = None
    /\ generated_markdown_table \in {Some(g) : g \in PromptTexts}
    /\ csv_markdown_table \in {None} \cup {Some(c) : c \in PromptTexts}
    /\ prompt = None
    /\ requests = <<>>
    /\ response = None
    /\ output = <<>>
    /\ raised = <<>>

CallGetUserPrompt ==
    /\ pc = "get_user_prompt"
    /\ prompt' = Some(get_user_prompt(generated_markdown_table[1], csv_markdown_table))
    /\ pc' = "returned"
    /\ UNCHANGED <<env, prompts, CLIENT, generated_df, csv_df, csv_markdown_table,
                   generated_markdown_table, requests, response, output, raised>>

PromptNext == CallGetUserPrompt

PromptSpec == PromptInit /\ [][PromptNext]_vars

\* ------------------------------------------------------------ observations
Terminated == pc \in {"exit", "crashed"}

\* Some line written to the stream opens with the fragment.
Wrote(stream, opening) ==
    \E i \in 1..Len(output) : output[i][1] = stream /\ output[i][2][1] = opening

WasRaised(names) == \E i \in 1..Len(raised) : raised[i][1] \in names

WasRaisedUnhandled(names) ==
    \E i \in 1..Len(raised) : raised[i][1] \in names /\ raised[i][2] = "unhandled"

\* health_check got past both of its opening guards.
GuardsPassed == generated_df # None

LastLine == output[Len(output)]

\* The prompt of the request that was sent.
PromptSent == requests[1].messages[2].content

\* The openings of the program's own warning and error lines.
DiagnosticOpenings ==
    { "Error: Could not import prompts from 'app' directory.",
      "Ensure 'app/prompts.py' exists and the 'app' directory is accessible.",
      "Error initializing OpenAI client: ",
      "Please ensure the OPENAI_API_KEY environment variable is set.",
      "OpenAI client not initialized. Cannot proceed.",
      "Prompts module not loaded. Cannot proceed.",
      "Warning: CSV file not found at ",
      "Error reading CSV file: ",
      "Error calling OpenAI API: ",
      "Traceback (most recent call last): " }

\* ------------------------------------------------------------ C1
\* C1: with no credential at process start, the run builds no prompt and sends
\* no request, and once it has ended it has reported a configuration error and
\* has not ended in an unhandled exception.
C1_MissingCredentialAbortsCleanly ==
    OPENAI_API_KEY = None =>
        /\ prompt = None
        /\ requests = <<>>
        /\ Terminated =>
             /\ pc = "exit"
             /\ ~WasRaisedUnhandled({"OpenAIError"})
             /\ \/ Wrote("stderr", "OpenAI client not initialized. Cannot proceed.")
                \/ Wrote("stdout", "Error initializing OpenAI client: ")

\* ------------------------------------------------------------ C2
\* C2: whichever way the chat-completion call fails (a transport error, a
\* response without a first choice, or an error the handler names), the error
\* is reported and the exception does not leave health_check.
RemoteCallFailed == requests # <<>> /\ WasRaised(CreateErrors \cup {"IndexError"})

C2_RemoteFailureNeverEscapes ==
    RemoteCallFailed =>
        /\ ~WasRaisedUnhandled(CreateErrors \cup {"IndexError"})
        /\ pc # "crashed"
        /\ Wrote("stderr", "Error calling OpenAI API: ")

\* ------------------------------------------------------------ C3
\* C3: a run that got past the guards and found no file at the CSV path has,
\* once it has ended, reported the warning, converted the generated table,
\* sent the request with a prompt that holds no "Dataset 2" section, and run
\* to its last statement.
C3_MissingCsvRunCompletes ==
    (csv_file.kind = "missing" /\ GuardsPassed /\ Terminated) =>
        /\ Wrote("stderr", "Warning: CSV file not found at ")
        /\ generated_markdown_table # None
        /\ Len(requests) = 1
        /\ ~Contains(PromptSent, DATASET_2)
        /\ pc = "exit"
        /\ LastLine = echo(<<"Health check complete.">>)

\* ------------------------------------------------------------ C4
\* C4 as stated: get_user_prompt(g) holds the single-dataset question and g;
\* get_user_prompt(g, c) holds g, c, the "Dataset 2" introduction and the
\* comparative question, and does not hold the single-dataset question.
C4_PromptContentsAsStated ==
    pc = "returned" =>
        LET g == generated_markdown_table[1]
            p == prompt[1]
        IN  IF csv_markdown_table = None
            THEN Contains(p, SINGLE_QUESTION) /\ Contains(p, g)
            ELSE /\ Contains(p, g)
                 /\ Contains(p, csv_markdown_table[1])
                 /\ Contains(p, DATASET_2)
                 /\ Contains(p, COMPARATIVE_QUESTION)
                 /\ ~Contains(p, SINGLE_QUESTION)

\* The sentence of the single-dataset question, without its leading newline.
SINGLE_SENTENCE == Tail(SINGLE_QUESTION)

\* C4 as amended: get_user_prompt(g) holds the single-dataset question and g;
\* for a c that is not empty, get_user_prompt(g, c) holds g, c, the "Dataset 2"
\* introduction and the comparative question, and it does not hold the
\* single-dataset question when neither g nor c holds that question's
\* sentence; for an empty c the result is get_user_prompt(g)'s.
C4_PromptContents ==
    pc = "returned" =>
        LET g == generated_markdown_table[1]
            p == prompt[1]
            single == Join(<<NL, NL>>, <<INTRO, DATASET_1, g, SINGLE_QUESTION>>)
        IN  IF csv_markdown_table = None
            THEN Contains(p, SINGLE_QUESTION) /\ Contains(p, g)
            ELSE IF csv_markdown_table[1] = <<>>
            THEN p = single
            ELSE /\ Contains(p, g)
                 /\ Contains(p, csv_markdown_table[1])
                 /\ Contains(p, DATASET_2)
                 /\ Contains(p, COMPARATIVE_QUESTION)
                 /\ (~Contains(g, SINGLE_SENTENCE) /\ ~Contains(csv_markdown_table[1], SINGLE_SENTENCE))
                        => ~Contains(p, SINGLE_QUESTION)

\* A two-table call whose tables are both non-empty and free of the question.
C4_Witness ==
    /\ pc = "returned"
    /\ generated_markdown_table[1] # <<>>
    /\ csv_markdown_table # None
    /\ csv_markdown_table[1] # <<>>
    /\ ~Contains(generated_markdown_table[1], SINGLE_SENTENCE)
    /\ ~Contains(csv_markdown_table[1], SINGLE_SENTENCE)
    /\ Contains(prompt[1], COMPARATIVE_QUESTION)

\* ------------------------------------------------------------ C5
\* The failures of the taxonomy, by the exception that signals them: the missing
\* credential, the CSV not found, the CSV empty or malformed, the failed request.
ExpectedFailures ==
    {"OpenAIError", "FileNotFoundError", "EmptyDataError", "ParserError", "IndexError"}
        \cup CreateErrors

\* C5: no failure of the taxonomy goes unhandled, and no run that met only
\* such failures ends in an unhandled exception.
C5_ExpectedFailuresAreCaught ==
    /\ ~WasRaisedUnhandled(ExpectedFailures)
    /\ (\A i \in 1..Len(raised) : raised[i][1] \in ExpectedFailures) => pc # "crashed"

\* ------------------------------------------------------------ C6
\* C6: every warning or error line is on standard error, and every other line
\* (progress, results) is on standard output.
C6_DiagnosticsOnStderr ==
    \A i \in 1..Len(output) :
        IF output[i][2][1] \in DiagnosticOpenings
        THEN output[i][1] = "stderr"
        ELSE output[i][1] = "stdout"

\* ------------------------------------------------------------ C7
ParseErrorMet == WasRaised({"EmptyDataError", "ParserError"})

\* C7: once reading the CSV has failed with EmptyDataError or ParserError, the
\* error is on standard error and there is no CSV table, and the run goes on to
\* send the request, with the single-dataset prompt.
C7_ParseErrorIsRecoverable ==
    /\ [](ParseErrorMet =>
            /\ Wrote("stderr", "Error reading CSV file: ")
            /\ csv_markdown_table = None
            /\ pc # "crashed" \/ requests # <<>>)
    /\ (ParseErrorMet ~>
            /\ Len(requests) = 1
            /\ Contains(PromptSent, SINGLE_QUESTION)
            /\ ~Contains(PromptSent, DATASET_2))

C7_Witness ==
    /\ read_csv_outcome(csv_file) = "ParserError"
    /\ ParseErrorMet
    /\ Len(requests) = 1
    /\ PromptSent = prompt[1]

\* ------------------------------------------------------------ C8
\* C8: at most one request is sent; when one has been sent the client check had
\* passed, the generated table had been converted and the prompt built, and the
\* request carries exactly the system instruction and then the built prompt.
C8_OneWellFormedRequest ==
    /\ Len(requests) <= 1
    /\ requests # <<>> =>
         /\ CLIENT # None
         /\ Wrote("stdout", "Performing data science health check...")
         /\ generated_markdown_table # None
         /\ prompt # None
         /\ requests[1].messages =
              << [role |-> "system", content |-> SYSTEM_MESSAGE],
                 [role |-> "user", content |-> prompt[1]] >>
    /\ (pc \in {"import_prompts", "init_client", "health_check", "read_csv",
                "convert_csv", "convert_generated", "build_prompt", "create"})
         => requests = <<>>

C8_Witness ==
    /\ Len(requests) = 1
    /\ Len(requests[1].messages) = 2
    /\ pc = "exit"

\* ------------------------------------------------------------ C9
\* The CSV file was read and converted without error in this run.
CsvReadAndConverted ==
    /\ read_csv_outcome(csv_file) = "ok"
    /\ ~WasRaised({"FileNotFoundError", "EmptyDataError", "ParserError", "UnicodeDecodeError"})

\* C9: the prompt sent holds the "Dataset 2 (From CSV)" section and the
\* comparative question exactly when the CSV was read and converted without
\* error; otherwise it is the single-dataset prompt of the generated table.
C9_Dataset2IffCsvConverted ==
    requests # <<>> =>
        /\ (Contains(PromptSent, DATASET_2) /\ Contains(PromptSent, COMPARATIVE_QUESTION))
              <=> CsvReadAndConverted
        /\ CsvReadAndConverted =>
              /\ Contains(PromptSent, to_markdown(read_csv(csv_file)))
              /\ ~Contains(PromptSent, SINGLE_QUESTION)
        /\ ~CsvReadAndConverted =>
              /\ Contains(PromptSent, SINGLE_QUESTION)
              /\ ~Contains(PromptSent, DATASET_2)
              /\ ~Contains(PromptSent, COMPARATIVE_QUESTION)

C9_Witness ==
    /\ requests # <<>>
    /\ CsvReadAndConverted
    /\ Len(csv_df[1].rows) > 0
    /\ Contains(PromptSent, DATASET_2)

\* ------------------------------------------------------------ C10
\* The exceptions health_check catches.
CaughtInHealthCheck ==
    {"FileNotFoundError", "EmptyDataError", "ParserError", "ValueError", "TypeError", "KeyError"}

\* C10: a run past both guards ends; it ends in an unhandled exception only when
\* an exception other than the caught ones was raised, and otherwise its last
\* line is "Health check complete.".  A run stopped by a guard writes neither
\* the banner nor "Health check complete.", generates no data, reads no CSV and
\* sends no request.
C10_CompletionAndGuards ==
    /\ (GuardsPassed ~> Terminated)
    /\ [](GuardsPassed /\ pc = "crashed" =>
            \E i \in 1..Len(raised) : raised[i][1] \notin CaughtInHealthCheck)
    /\ [](GuardsPassed /\ pc = "exit" =>
            /\ LastLine = echo(<<"Health check complete.">>)
            /\ \A i \in 1..Len(raised) : raised[i][2] = "caught")
    /\ [](~GuardsPassed /\ Terminated =>
            /\ ~Wrote("stdout", "Performing data science health check...")
            /\ ~Wrote("stdout", "Health check complete.")
            /\ ~Wrote("stdout", "Attempting to read CSV file: ")
            /\ generated_df = None
            /\ csv_df = None
            /\ requests = <<>>)
    /\ []((pc = "exit" /\ (CLIENT = None \/ prompts = None)) => ~GuardsPassed)

\* A run whose request failed with a caught error and that completed.
C10_Witness ==
    /\ pc = "exit"
    /\ GuardsPassed
    /\ WasRaised({"KeyError"})
    /\ LastLine = echo(<<"Health check complete.">>)

====
